---------------------------- MODULE Spec2Model ----------------------------
(***************************************************************************)
(* A model of the three maintenance scripts of nasnet-panel:               *)
(*   apps/backend/scripts/gen_stubs.py      (stub generation)              *)
(*   apps/backend/scripts/find_missing.py   (missing-method report)        *)
(*   libs/star-setup/src/locales/translate_and_update.py (locale batch)    *)
(* Text is modelled as text: Python's str methods are operators on         *)
(* strings, computed character by character.                               *)
(***************************************************************************)
EXTENDS Integers, Sequences, FiniteSets, TLC

VARIABLES
    \* gen_zero_return / parse_return_type called on one signature
    zpc, zsig, zret, zzero,
    \* gen_stubs.py
    gpc, gcontent, ginterfaces, gidx, stubs, outfile,
    \* find_missing.py
    fpc, fcontent, fdir, finterfaces, fiface, ffile, implemented, printed,
    \* translate_and_update.py: the run
    tpc, args, available, fs, oplog, english, lidx, data, kidx,
    translated, failed, hist, success_count, summary,
    \* translate_and_update.py: one call of translate_text
    rpc, rtext, rlang, rmax, attempt, calls, waits, rret

zvars == <<zpc, zsig, zret, zzero>>
gvars == <<gpc, gcontent, ginterfaces, gidx, stubs, outfile>>
fvars == <<fpc, fcontent, fdir, finterfaces, fiface, ffile, implemented, printed>>
tvars == <<tpc, args, available, fs, oplog, english, lidx, data, kidx,
           translated, failed, hist, success_count, summary>>
rvars == <<rpc, rtext, rlang, rmax, attempt, calls, waits, rret>>
vars == <<zvars, gvars, fvars, tvars, rvars>>

\* Python's None, and a dictionary key or a file that is not there.
None == "<None>"
Absent == "<absent>"

-----------------------------------------------------------------------------
(* Python str methods *)

Char(s, i) == SubSeq(s, i, i)

StartsWith(s, p) == Len(s) >= Len(p) /\ SubSeq(s, 1, Len(p)) = p

EndsWith(s, p) == Len(s) >= Len(p) /\ SubSeq(s, Len(s) - Len(p) + 1, Len(s)) = p

IsSpace(c) == c \in {" ", "\t", "\n", "\r"}

Min(S) == CHOOSE i \in S : \A j \in S : i <= j
Max(S) == CHOOSE i \in S : \A j \in S : i >= j

\* s.strip(): s without its leading and trailing whitespace.
Strip(s) ==
    LET Kept == {i \in 1..Len(s) : ~IsSpace(Char(s, i))}
    IN  IF Kept = {} THEN "" ELSE SubSeq(s, Min(Kept), Max(Kept))

\* The indices of s at which sub occurs.
Occurrences(s, sub) ==
    {i \in 1..(Len(s) - Len(sub) + 1) : SubSeq(s, i, i + Len(sub) - 1) = sub}

\* The least index >= from at which sub occurs in s, or 0.
Find(s, sub, from) ==
    LET At == {i \in Occurrences(s, sub) : i >= from}
    IN  IF At = {} THEN 0 ELSE Min(At)

\* The greatest index <= upto at which sub occurs in s, or 0.
RFind(s, sub, upto) ==
    LET At == {i \in Occurrences(s, sub) : i <= upto}
    IN  IF At = {} THEN 0 ELSE Max(At)

Contains(s, sub) == Find(s, sub, 1) # 0

\* The set S of numbers as an increasing sequence.
RECURSIVE Ascending(_)
Ascending(S) == IF S = {} THEN <<>> ELSE <<Min(S)>> \o Ascending(S \ {Min(S)})

\* s.split(sep) for a separator of one character: always at least one part.
Split(s, sep) ==
    LET cuts == <<0>> \o Ascending(Occurrences(s, sep)) \o <<Len(s) + 1>>
    IN  [k \in 1..(Len(cuts) - 1) |-> SubSeq(s, cuts[k] + 1, cuts[k + 1] - 1)]

\* s.rsplit(sep, 1)
RSplit1(s, sep) ==
    LET i == RFind(s, sep, Len(s))
    IN  IF i = 0 THEN <<s>>
        ELSE <<SubSeq(s, 1, i - 1), SubSeq(s, i + Len(sep), Len(s))>>

\* sep.join(parts)
RECURSIVE JoinRange(_, _, _, _)
JoinRange(parts, sep, lo, hi) ==
    IF lo > hi THEN ""
    ELSE IF lo = hi THEN parts[lo]
    ELSE LET mid == (lo + hi) \div 2
         IN  JoinRange(parts, sep, lo, mid) \o sep \o JoinRange(parts, sep, mid + 1, hi)

Join(parts, sep) == JoinRange(parts, sep, 1, Len(parts))

\* s.replace(old, new)
RECURSIVE Replace(_, _, _)
Replace(s, old, new) ==
    LET i == Find(s, old, 1)
    IN  IF i = 0 THEN s
        ELSE SubSeq(s, 1, i - 1) \o new \o Replace(SubSeq(s, i + Len(old), Len(s)), old, new)

Lower(c) ==
    CASE c = "A" -> "a" [] c = "B" -> "b" [] c = "C" -> "c" [] c = "D" -> "d"
      [] c = "E" -> "e" [] c = "F" -> "f" [] c = "G" -> "g" [] c = "H" -> "h"
      [] c = "I" -> "i" [] c = "J" -> "j" [] c = "K" -> "k" [] c = "L" -> "l"
      [] c = "M" -> "m" [] c = "N" -> "n" [] c = "O" -> "o" [] c = "P" -> "p"
      [] c = "Q" -> "q" [] c = "R" -> "r" [] c = "S" -> "s" [] c = "T" -> "t"
      [] c = "U" -> "u" [] c = "V" -> "v" [] c = "W" -> "w" [] c = "X" -> "x"
      [] c = "Y" -> "y" [] c = "Z" -> "z" [] OTHER -> c

\* The characters of the regular expression class \w, in code-point order.
WordChars == "0123456789ABCDEFGHIJKLMNOPQRSTUVWXYZ_abcdefghijklmnopqrstuvwxyz"

WordCharSet == {Char(WordChars, i) : i \in 1..Len(WordChars)}

IsWordChar(c) == c \in WordCharSet

\* The end of the longest run of \w characters of s that starts at index i
\* (i - 1 when there is none).
RECURSIVE WordEnd(_, _)
WordEnd(s, i) ==
    IF i <= Len(s) /\ IsWordChar(Char(s, i)) THEN WordEnd(s, i + 1) ELSE i - 1

\* str(n) of a natural number
Digit(d) == Char("0123456789", d + 1)

RECURSIVE Str(_)
Str(n) == IF n < 10 THEN Digit(n) ELSE Str(n \div 10) \o Digit(n % 10)

\* The order of str values: by code point, a proper prefix first.
RECURSIVE StrLess(_, _)
StrLess(a, b) ==
    IF Len(b) = 0 THEN FALSE
    ELSE IF Len(a) = 0 THEN TRUE
    ELSE IF Char(a, 1) = Char(b, 1) THEN StrLess(Tail(a), Tail(b))
    ELSE Find(WordChars, Char(a, 1), 1) < Find(WordChars, Char(b, 1), 1)

\* sorted(S) of a set of str
RECURSIVE Sorted(_)
Sorted(S) ==
    IF S = {} THEN <<>>
    ELSE LET m == CHOOSE x \in S : \A y \in S \ {x} : StrLess(x, y)
         IN  <<m>> \o Sorted(S \ {m})

Range(seq) == {seq[i] : i \in 1..Len(seq)}

\* The sequences over S of length lo..hi.
SeqsOf(S, lo, hi) == UNION {[1..n -> S] : n \in lo..hi}

-----------------------------------------------------------------------------
(* gen_stubs.py: parse_return_type and gen_zero_return *)

parse_return_type(sig) ==
    LET parts == RSplit1(sig, ")")
    IN  IF Len(parts) < 2 THEN ""
        ELSE LET ret == Strip(parts[2])
             IN  IF StartsWith(ret, "(") /\ EndsWith(ret, ")")
                 THEN SubSeq(ret, 2, Len(ret) - 1)
                 ELSE ret

\* The if/elif chain of gen_zero_return with the branch for "int" left out.
ZeroValue_NoInt(p) ==
    IF p = "error" THEN "fmt.Errorf(\"not implemented\")"
    ELSE IF StartsWith(p, "*") THEN "nil"
    ELSE IF StartsWith(p, "[]") THEN "nil"
    ELSE IF StartsWith(p, "map[") THEN "nil"
    ELSE IF StartsWith(p, "<-chan") THEN "nil"
    ELSE IF p = "string" THEN "\"\""
    ELSE IF p = "bool" THEN "false"
    ELSE IF p = "float64" THEN "0"
    ELSE "nil"

\* The if/elif chain of gen_zero_return, for one stripped part.
ZeroValue(p) ==
    IF p = "error" THEN "fmt.Errorf(\"not implemented\")"
    ELSE IF StartsWith(p, "*") THEN "nil"
    ELSE IF StartsWith(p, "[]") THEN "nil"
    ELSE IF StartsWith(p, "[]*") THEN "nil"
    ELSE IF StartsWith(p, "map[") THEN "nil"
    ELSE IF StartsWith(p, "<-chan") THEN "nil"
    ELSE IF p = "string" THEN "\"\""
    ELSE IF p = "bool" THEN "false"
    ELSE IF p = "int" THEN "0"
    ELSE IF p = "float64" THEN "0"
    ELSE "nil"

gen_zero_return(ret_str) ==
    LET split == Split(ret_str, ",")
        parts == [i \in DOMAIN split |-> Strip(split[i])]
        values == [i \in DOMAIN parts |-> ZeroValue(Strip(parts[i]))]
    IN  Join(values, ", ")

\* The longest return list the signatures drawn below carry.
MaxReturns == 2

\* Return-type tokens of Go signatures.
TypeTokens ==
    {"error", "*Widget", "[]string", "[]*model.Route", "map[string]int",
     "<-chan *model.Event", "string", "bool", "int", "float64", "float",
     "model.Status", "int64"}

ListTokens == {"*Widget", "error", "string", "bool", "float64"}

ReturnLists == SeqsOf(ListTokens, 1, MaxReturns)

\* A method signature as an interface block of generated.go states it.
BareSig(t) == "Foo(ctx context.Context) " \o t
ParenSig(ts) == "Foo(ctx context.Context) (" \o Join(ts, ", ") \o ")"

Signatures ==
    {BareSig(t) : t \in TypeTokens} \cup {ParenSig(ts) : ts \in ReturnLists}
        \cup {"Foo", "Foo(ctx context.Context)"}

\* Return strings handed to gen_zero_return directly.
ReturnStrings ==
    TypeTokens \cup {Join(ts, ", ") : ts \in ReturnLists}
        \cup {"", " bool ", "*Widget,error", "Widget"}

\* A specification runs one script; the state of the others stays as below.
IdleZ == zpc = "idle" /\ zsig = None /\ zret = None /\ zzero = None
IdleG ==
    /\ gpc = "idle" /\ gcontent = <<>> /\ ginterfaces = <<>> /\ gidx = 0
    /\ stubs = <<>> /\ outfile = Absent
IdleF ==
    /\ fpc = "idle" /\ fcontent = <<>> /\ fdir = <<>> /\ finterfaces = <<>>
    /\ fiface = 0 /\ ffile = 0 /\ implemented = {} /\ printed = <<>>
IdleT ==
    /\ tpc = "idle" /\ args = <<>> /\ available = FALSE /\ fs = <<>>
    /\ oplog = <<>> /\ english = <<>> /\ lidx = 0 /\ data = <<>> /\ kidx = 0
    /\ translated = 0 /\ failed = 0 /\ hist = <<>> /\ success_count = 0
    /\ summary = <<>>
IdleR ==
    /\ rpc = "idle" /\ rtext = None /\ rlang = None /\ rmax = 0 /\ attempt = 0
    /\ calls = 0 /\ waits = <<>> /\ rret = None

InitZ ==
    /\ \/ zpc = "parse" /\ zsig \in Signatures /\ zret = None
       \/ zpc = "zero" /\ zsig = None /\ zret \in ReturnStrings
    /\ zzero = None
    /\ IdleG /\ IdleF /\ IdleT /\ IdleR

\* ret = parse_return_type(sig)
ParseReturn ==
    /\ zpc = "parse"
    /\ zret' = parse_return_type(zsig)
    /\ zpc' = "zero"
    /\ UNCHANGED <<zsig, zzero, gvars, fvars, tvars, rvars>>

\* zero = gen_zero_return(ret)
GenZero ==
    /\ zpc = "zero"
    /\ zzero' = gen_zero_return(zret)
    /\ zpc' = "done"
    /\ UNCHANGED <<zsig, zret, gvars, fvars, tvars, rvars>>

NextZ == ParseReturn \/ GenZero

SpecZeroReturn == InitZ /\ [][NextZ]_vars

-----------------------------------------------------------------------------
(* gen_stubs.py: the script *)

IfaceNames == <<"MutationResolver", "QueryResolver", "SubscriptionResolver">>

missing_mutations ==
    <<"CreateRoutingChain", "DeleteInstance", "InstallService",
      "RemoveRoutingChain", "ResetTrafficQuota", "RestartInstance",
      "ReverifyInstance", "SetTrafficQuota", "StartInstance",
      "StopInstance", "UpdateRoutingChain", "ValidateServiceConfig">>

missing_queries ==
    <<"GatewayStatus", "InstanceConfig", "InstanceHealth",
      "InstanceVerificationStatus", "RoutingChain", "RoutingChains",
      "ServiceConfigSchema", "ServiceDeviceBreakdown", "ServiceInstance",
      "ServiceInstances", "ServiceTrafficStats", "VirtualInterface",
      "VirtualInterfaces">>

missing_subscriptions ==
    <<"InstanceHealthChanged", "InstanceStatusChanged",
      "RoutingChainChanged", "ServiceTrafficUpdated", "VerificationEvents">>

\* re.search(f"type {iface_name} interface {{([^}}]+)}}", content, re.DOTALL):
\* group(1) of the leftmost match, or None. A match starts at an occurrence of
\* the literal that is followed by at least one character other than "}" and,
\* after those, by a "}".
RECURSIVE IfaceSearch(_, _, _)
IfaceSearch(content, lit, from) ==
    LET i == Find(content, lit, from)
        start == i + Len(lit)
        j == Find(content, "}", start)
    IN  IF i = 0 \/ j = 0 THEN None
        ELSE IF j = start THEN IfaceSearch(content, lit, i + 1)
        ELSE SubSeq(content, start, j - 1)

IfaceBlock(content, iface_name) ==
    IfaceSearch(content, "type " \o iface_name \o " interface {", 1)

\* The dictionary the extraction loop builds: a key for each interface found.
ExtractBlocks(content) ==
    [n \in {m \in Range(IfaceNames) : IfaceBlock(content, m) # None}
        |-> IfaceBlock(content, n)]

Header ==
    <<"package resolver",
      "",
      "// This file contains stub implementations for GraphQL resolver methods",
      "// that are defined in the schema but not yet fully implemented.",
      "// Generated to satisfy the interface requirements.",
      "",
      "import (",
      "\t\"context\"",
      "\t\"fmt\"",
      "",
      "\t\"backend/graph/model\"",
      ")",
      "">>

RECURSIVE FirstLineWith(_, _)
FirstLineWith(lines, prefix) ==
    IF Len(lines) = 0 THEN None
    ELSE IF StartsWith(Strip(Head(lines)), prefix) THEN Strip(Head(lines))
    ELSE FirstLineWith(Tail(lines), prefix)

\* extract_method_sig matching the method's name alone, without the "(".
extract_method_sig_prefix(iface_body, method_name) ==
    FirstLineWith(Split(iface_body, "\n"), method_name)

extract_method_sig(iface_body, method_name) ==
    FirstLineWith(Split(iface_body, "\n"), method_name \o "(")

\* The five lines one loop iteration appends for a method with a signature.
StubUnit(receiver, method, sig) ==
    <<"// " \o method \o " is the resolver for the "
          \o Lower(Char(method, 1)) \o SubSeq(method, 2, Len(method)) \o " field.",
      "func (r *" \o receiver \o ") " \o sig \o " {",
      "\treturn " \o gen_zero_return(parse_return_type(sig)),
      "}",
      "">>

\* What the block of an interface in generated.go may state.
MaxSigLines == 2

SigLines(iface) ==
    CASE iface = "MutationResolver" ->
           <<"StartInstance(ctx context.Context, input model.StartInstanceInput) (*model.InstancePayload, error)",
             "StopInstance(ctx context.Context, id string) (bool, error)">>
      [] iface = "QueryResolver" ->
           <<"RoutingChain(ctx context.Context, id string) (*model.RoutingChain, error)",
             "RoutingChains(ctx context.Context) ([]*model.RoutingChain, error)">>
      [] iface = "SubscriptionResolver" ->
           <<"VerificationEvents(ctx context.Context) (<-chan *model.VerificationEvent, error)",
             "DeviceChanged(ctx context.Context) <-chan *model.Device">>

SigPool(iface) == Range(SigLines(iface))

\* A declaration of generated.go: the interface with one tab-indented line for
\* each method.
BlockText(iface, sigs) ==
    "type " \o iface \o " interface {\n"
        \o Join([i \in DOMAIN sigs |-> "\t" \o sigs[i] \o "\n"], "") \o "}\n\n"

\* The declarations an interface may have in a generated.go: none (""), or one
\* with up to MaxSigLines methods.
Declarations(iface) ==
    {""} \cup {BlockText(iface, sigs) : sigs \in SeqsOf(SigPool(iface), 0, MaxSigLines)}

GeneratedGo ==
    {"package graph\n\n" \o m \o q \o s :
        m \in Declarations("MutationResolver"),
        q \in Declarations("QueryResolver"),
        s \in Declarations("SubscriptionResolver")}

InitG ==
    /\ gpc = "extract"
    /\ gcontent \in GeneratedGo
    /\ ginterfaces = [n \in {} |-> None]
    /\ gidx = 1
    /\ stubs = <<>>
    /\ outfile = Absent
    /\ IdleZ /\ IdleF /\ IdleT /\ IdleR

\* lines 30-36: the interface blocks
GExtract ==
    /\ gpc = "extract"
    /\ ginterfaces' = ExtractBlocks(gcontent)
    /\ gpc' = "header"
    /\ UNCHANGED <<gcontent, gidx, stubs, outfile, zvars, fvars, tvars, rvars>>

\* lines 38-52: the header
GHeader ==
    /\ gpc = "header"
    /\ stubs' = stubs \o Header
    /\ gpc' = "mutations"
    /\ UNCHANGED <<gcontent, ginterfaces, gidx, outfile, zvars, fvars, tvars, rvars>>

\* One iteration of a stub loop over `list`: interfaces[iface] raises KeyError
\* when the interface was not found, and the script ends there.
GenStub(list, iface, receiver, here, next) ==
    IF iface \notin DOMAIN ginterfaces
    THEN /\ gpc' = "crashed"
         /\ UNCHANGED <<gidx, stubs>>
    ELSE LET method == list[gidx]
             sig == extract_method_sig(ginterfaces[iface], method)
         IN  /\ stubs' = IF sig # None /\ sig # ""
                         THEN stubs \o StubUnit(receiver, method, sig)
                         ELSE stubs
             /\ IF gidx < Len(list)
                THEN gidx' = gidx + 1 /\ gpc' = here
                ELSE gidx' = 1 /\ gpc' = next

\* lines 106-116
GenMutation ==
    /\ gpc = "mutations"
    /\ GenStub(missing_mutations, "MutationResolver", "mutationResolver",
               "mutations", "queries")
    /\ UNCHANGED <<gcontent, ginterfaces, outfile, zvars, fvars, tvars, rvars>>

\* lines 118-128
GenQuery ==
    /\ gpc = "queries"
    /\ GenStub(missing_queries, "QueryResolver", "queryResolver",
               "queries", "subscriptions")
    /\ UNCHANGED <<gcontent, ginterfaces, outfile, zvars, fvars, tvars, rvars>>

\* lines 130-140
GenSubscription ==
    /\ gpc = "subscriptions"
    /\ GenStub(missing_subscriptions, "SubscriptionResolver", "subscriptionResolver",
               "subscriptions", "write")
    /\ UNCHANGED <<gcontent, ginterfaces, outfile, zvars, fvars, tvars, rvars>>

\* lines 142-145
GWrite ==
    /\ gpc = "write"
    /\ outfile' = Join(stubs, "\n")
    /\ gpc' = "done"
    /\ UNCHANGED <<gcontent, ginterfaces, gidx, stubs, zvars, fvars, tvars, rvars>>

NextG == GExtract \/ GHeader \/ GenMutation \/ GenQuery \/ GenSubscription \/ GWrite

SpecGenStubs == InitG /\ [][NextG]_vars

-----------------------------------------------------------------------------
(* Properties of gen_stubs.py *)

\* C1: for a signature whose return list is a parenthesized list of n types the
\* generated return statement carries n zero values, one per type and in the
\* types' order; for `Foo(ctx context.Context) (*Widget, error)` it is
\* `return nil, fmt.Errorf("not implemented")`.
C1_OneZeroValuePerReturnType ==
    zpc = "done" =>
        /\ \A ts \in ReturnLists :
              zsig = ParenSig(ts) =>
                  zzero = Join([i \in DOMAIN ts |-> ZeroValue(ts[i])], ", ")
        /\ zsig = "Foo(ctx context.Context) (*Widget, error)" =>
              "return " \o zzero = "return nil, fmt.Errorf(\"not implemented\")"

\* The rule table of C7 as the claim states it.
C7_ClaimedZero(t) ==
    IF t = "error" THEN "fmt.Errorf(\"not implemented\")"
    ELSE IF \E sigil \in {"*", "[]", "map[", "<-chan"} : StartsWith(t, sigil) THEN "nil"
    ELSE IF t = "string" THEN "\"\""
    ELSE IF t = "bool" THEN "false"
    ELSE IF t = "int" THEN "0"
    ELSE IF t \in {"float64", "float"} THEN "0.0"
    ELSE "nil"

\* The rule table with float64 giving 0 and float falling to the default.
C7_AmendedZero(t) ==
    IF t = "error" THEN "fmt.Errorf(\"not implemented\")"
    ELSE IF \E sigil \in {"*", "[]", "map[", "<-chan"} : StartsWith(t, sigil) THEN "nil"
    ELSE IF t = "string" THEN "\"\""
    ELSE IF t \in {"bool"} THEN "false"
    ELSE IF t \in {"int", "float64"} THEN "0"
    ELSE "nil"

SingleToken(ret_str) == ~Contains(ret_str, ",")

\* C7 as claimed: gen_zero_return maps a single token by the rule table in
\* which float64 and float give 0.0.
C7_ZeroValueTableAsClaimed ==
    (zpc = "done" /\ SingleToken(zret)) => zzero = C7_ClaimedZero(Strip(zret))

\* C7 amended: gen_zero_return maps a single token by the rule table in which
\* float64 gives 0 and float, like any unrecognized token, gives nil.
C7_ZeroValueTable ==
    (zpc = "done" /\ SingleToken(zret)) => zzero = C7_AmendedZero(Strip(zret))

C7_Witness == zpc = "done" /\ zret = "float64" /\ zzero = "0"

\* C5: an interface absent from generated.go has an empty method mapping and
\* the run does not fail: gen_stubs still reaches the write of the output file.
C5_AbsentInterfaceIsNotAnError ==
    (\E n \in Range(IfaceNames) : IfaceBlock(gcontent, n) = None) => gpc # "crashed"

\* The methods of `list` that have a signature line in the block of `iface`.
RECURSIVE WithSignatureIn(_, _)
WithSignatureIn(list, lines) ==
    IF Len(list) = 0 THEN <<>>
    ELSE (IF \E i \in DOMAIN lines : StartsWith(Strip(lines[i]), Head(list) \o "(")
          THEN <<Head(list)>> ELSE <<>>) \o WithSignatureIn(Tail(list), lines)

WithSignature(list, body) == WithSignatureIn(list, Split(body, "\n"))

\* The methods stubbed, in the order of the output's comment lines.
RECURSIVE StubbedMethods(_)
StubbedMethods(lines) ==
    IF Len(lines) = 0 THEN <<>>
    ELSE LET l == Head(lines)
             k == Find(l, " is the resolver for the ", 1)
         IN  (IF StartsWith(l, "// ") /\ k # 0 THEN <<SubSeq(l, 4, k - 1)>> ELSE <<>>)
                 \o StubbedMethods(Tail(lines))

\* C10: a listed method without a signature line in its interface block is
\* skipped without error (the run fails only on an interface that was not
\* found), and the file written is the header once, then one stub for each
\* remaining method: the mutation list, the query list, the subscription list,
\* each in its own order.
C10_HeaderOnceThenStubsInListOrder ==
    /\ gpc = "crashed" => \E n \in Range(IfaceNames) : n \notin DOMAIN ginterfaces
    /\ gpc = "done" =>
          LET lines == Split(outfile, "\n")
              expected ==
                  WithSignature(missing_mutations, ginterfaces["MutationResolver"])
                      \o WithSignature(missing_queries, ginterfaces["QueryResolver"])
                      \o WithSignature(missing_subscriptions,
                                       ginterfaces["SubscriptionResolver"])
          IN  /\ SubSeq(lines, 1, Len(Header)) = Header
              /\ Cardinality({i \in DOMAIN lines : lines[i] = "package resolver"}) = 1
              /\ Cardinality({i \in DOMAIN lines : lines[i] = "import ("}) = 1
              /\ StubbedMethods(lines) = expected
              /\ Cardinality({i \in DOMAIN lines : StartsWith(lines[i], "func ")})
                     = Len(expected)

\* A run that skipped RoutingChain (no signature line) and wrote the stubs of
\* StartInstance, RoutingChains and VerificationEvents.
C10_Witness ==
    /\ gpc = "done"
    /\ StubbedMethods(Split(outfile, "\n"))
           = <<"StartInstance", "RoutingChains", "VerificationEvents">>

-----------------------------------------------------------------------------
(* find_missing.py *)

\* re.findall(r"\t(\w+)\(", body) as a set: the words that follow a tab and are
\* followed by "(".
InterfaceMethods(body) ==
    {SubSeq(body, i + 1, WordEnd(body, i + 1)) :
        i \in {k \in Occurrences(body, "\t") :
                  LET e == WordEnd(body, k + 1)
                  IN  e >= k + 1 /\ Char(body, e + 1) = "("}}

\* The dictionary of lines 12-18: a key for each interface found.
ExtractMethods(content) ==
    [n \in {m \in Range(IfaceNames) : IfaceBlock(content, m) # None}
        |-> InterfaceMethods(IfaceBlock(content, n))]

resolver_types(iface_name) ==
    CASE iface_name = "MutationResolver" -> "mutationResolver"
      [] iface_name = "QueryResolver" -> "queryResolver"
      [] iface_name = "SubscriptionResolver" -> "subscriptionResolver"

\* re.search(rf"func \(r \*{receiver}\) (\w+)\(", line): group(1) of the
\* leftmost match, or None.
MatchMethod(line, receiver) ==
    LET lit == "func (r *" \o receiver \o ") "
        At == {i \in Occurrences(line, lit) :
                  LET e == WordEnd(line, i + Len(lit))
                  IN  e >= i + Len(lit) /\ Char(line, e + 1) = "("}
    IN  IF At = {} THEN None
        ELSE SubSeq(line, Min(At) + Len(lit), WordEnd(line, Min(At) + Len(lit)))

\* The names the lines of a file's text add to the implemented set.
MethodsDefined(text, receiver) ==
    LET lines == Split(text, "\n")
    IN  {MatchMethod(lines[i], receiver) : i \in DOMAIN lines} \ {None}

\* gofile.endswith("_test.go") with the suffix check lost.
IsTestFile_Never(gofile) == FALSE

IsTestFile(gofile) == EndsWith(gofile, "_test.go")

\* sorted(required) in place of sorted(required - implemented).
MissingOf_NoDifference(required, impl) == Sorted(required)

\* line 41
MissingOf(required, impl) == Sorted(required \ impl)

\* lines 43-48: what the report of one interface prints.
Report(iface_name, impl, missing) ==
    <<"\n--- " \o iface_name \o ": " \o Str(Cardinality(impl)) \o " implemented, "
          \o Str(Len(missing)) \o " missing ---">>
        \o (IF Len(missing) > 0
            THEN [i \in DOMAIN missing |-> "  " \o missing[i]]
            ELSE <<"  ALL IMPLEMENTED!">>)

\* The most files graph/resolver/*.go holds.
MaxFiles == 2

GoFileNames ==
    {"graph/resolver/instance.resolvers.go", "graph/resolver/instance_test.go",
     "graph/resolver/routing.resolvers.go"}

GoFileTexts ==
    {"package resolver\n\nfunc (r *mutationResolver) StartInstance(ctx context.Context, input model.StartInstanceInput) (*model.InstancePayload, error) {\n\treturn nil, nil\n}\n\nfunc (r *queryResolver) RoutingChains(ctx context.Context) ([]*model.RoutingChain, error) {\n\treturn nil, nil\n}\n",
     "package resolver\n\n// func (r *mutationResolver) stopInstance(ctx context.Context) {}\nfunc (r *queryResolver) StopInstance(ctx context.Context, id string) (bool, error) {\n\treturn false, nil\n}\nfunc (r *queryResolver) RoutingChain(ctx context.Context, id string) (*model.RoutingChain, error) {\n\treturn nil, nil\n}\nfunc (r *subscriptionResolver) VerificationEvents(ctx context.Context) (<-chan *model.VerificationEvent, error) {\n\treturn nil, nil\n}\nfunc (r *Resolver) helper() {}\n"}

\* A file of the directory: open() raises for one that cannot be read.
GoFiles ==
    [name : GoFileNames, readable : {TRUE}, text : GoFileTexts]
        \cup [name : GoFileNames, readable : {FALSE}, text : {""}]

\* What glob.glob returns: the files in the order of the directory listing.
Directories ==
    {d \in SeqsOf(GoFiles, 0, MaxFiles) :
        \A i, j \in DOMAIN d : i # j => d[i].name # d[j].name}

\* generated.go with each interface declared in full or not at all.
FullOrAbsent(iface) == {"", BlockText(iface, SigLines(iface))}

ScannedGeneratedGo ==
    {"package graph\n\n" \o m \o q \o s :
        m \in FullOrAbsent("MutationResolver"),
        q \in FullOrAbsent("QueryResolver"),
        s \in FullOrAbsent("SubscriptionResolver")}

InitF ==
    /\ fpc = "extract"
    /\ fcontent \in ScannedGeneratedGo
    /\ fdir \in Directories
    /\ finterfaces = [n \in {} |-> {}]
    /\ fiface = 1
    /\ ffile = 1
    /\ implemented = {}
    /\ printed = <<>>
    /\ IdleZ /\ IdleG /\ IdleT /\ IdleR

\* lines 11-18
FExtract ==
    /\ fpc = "extract"
    /\ finterfaces' = ExtractMethods(fcontent)
    /\ fpc' = "scan"
    /\ UNCHANGED <<fcontent, fdir, fiface, ffile, implemented, printed,
                   zvars, gvars, tvars, rvars>>

\* lines 31-38: one file of the glob, for the interface at hand. A test file is
\* passed over; open() of a file that cannot be read raises and ends the script.
FScanFile ==
    /\ fpc = "scan"
    /\ ffile <= Len(fdir)
    /\ LET gofile == fdir[ffile]
           receiver == resolver_types(IfaceNames[fiface])
       IN  IF IsTestFile(gofile.name)
           THEN /\ ffile' = ffile + 1
                /\ UNCHANGED <<fpc, implemented>>
           ELSE IF ~gofile.readable
           THEN /\ fpc' = "crashed"
                /\ UNCHANGED <<ffile, implemented>>
           ELSE /\ implemented' = implemented \cup MethodsDefined(gofile.text, receiver)
                /\ ffile' = ffile + 1
                /\ UNCHANGED fpc
    /\ UNCHANGED <<fcontent, fdir, finterfaces, fiface, printed,
                   zvars, gvars, tvars, rvars>>

\* lines 40-48, and lines 27-28 of the next interface
FReport ==
    /\ fpc = "scan"
    /\ ffile > Len(fdir)
    /\ LET iface_name == IfaceNames[fiface]
           required == IF iface_name \in DOMAIN finterfaces
                       THEN finterfaces[iface_name] ELSE {}
           missing == MissingOf(required, implemented)
       IN  printed' = printed \o Report(iface_name, implemented, missing)
    /\ implemented' = {}
    /\ ffile' = 1
    /\ IF fiface < Len(IfaceNames)
       THEN fiface' = fiface + 1 /\ UNCHANGED fpc
       ELSE fpc' = "done" /\ UNCHANGED fiface
    /\ UNCHANGED <<fcontent, fdir, finterfaces, zvars, gvars, tvars, rvars>>

NextF == FExtract \/ FScanFile \/ FReport

SpecFindMissing == InitF /\ [][NextF]_vars

-----------------------------------------------------------------------------
(* Properties of find_missing.py *)

TestFiles == {i \in DOMAIN fdir : EndsWith(fdir[i].name, "_test.go")}
OtherFiles == DOMAIN fdir \ TestFiles

\* The method names the files `which` of the directory define against the
\* receiver of `iface`.
DefinedIn(which, iface) ==
    UNION {MethodsDefined(fdir[i].text, resolver_types(iface)) : i \in which}

\* The method names of the block of `iface` in generated.go (none without one).
Contract(iface) ==
    IF IfaceBlock(fcontent, iface) = None THEN {}
    ELSE InterfaceMethods(IfaceBlock(fcontent, iface))

\* The interfaces whose report is printed.
Reported == IF fpc = "done" THEN 1..Len(IfaceNames) ELSE 1..(fiface - 1)

IsReportHead(line) == StartsWith(line, "\n--- ")

\* The lines printed under the head line of `iface`, up to the next head line.
ReportBody(iface) ==
    LET h == Min({i \in DOMAIN printed : StartsWith(printed[i], "\n--- " \o iface \o ": ")})
        next == Min({i \in DOMAIN printed : i > h /\ IsReportHead(printed[i])}
                        \cup {Len(printed) + 1})
    IN  SubSeq(printed, h + 1, next - 1)

\* C4: a method defined in a file whose name ends in _test.go does not enter
\* the implemented set on that account, and an interface whose methods are
\* defined in test files only is reported with every contract method missing.
C4_TestFilesNeverCount ==
    /\ fpc = "scan" =>
          implemented \cap (DefinedIn(TestFiles, IfaceNames[fiface])
                               \ DefinedIn(OtherFiles, IfaceNames[fiface])) = {}
    /\ \A k \in Reported :
          LET iface == IfaceNames[k]
          IN  (DefinedIn(OtherFiles, iface) = {} /\ Contract(iface) # {}) =>
                  /\ Range(ReportBody(iface)) = {"  " \o m : m \in Contract(iface)}
                  /\ Len(ReportBody(iface)) = Cardinality(Contract(iface))
                  /\ "\n--- " \o iface \o ": 0 implemented, "
                         \o Str(Cardinality(Contract(iface))) \o " missing ---"
                       \in Range(printed)

\* MutationResolver has its StartInstance defined in a test file only, and the
\* report lists StartInstance as missing.
C4_Witness ==
    /\ fpc = "done"
    /\ "StartInstance" \in DefinedIn(TestFiles, "MutationResolver")
    /\ DefinedIn(OtherFiles, "MutationResolver") = {}
    /\ "  StartInstance" \in Range(ReportBody("MutationResolver"))

\* C6: a scanned file that cannot be read is skipped and the scan goes on; the
\* run does not abort.
C6_UnreadableFileIsSkipped ==
    (\E i \in DOMAIN fdir : ~fdir[i].readable) => fpc # "crashed"

\* C8: what is printed for an interface.
ExpectedReport(iface) ==
    LET impl == DefinedIn(OtherFiles, iface)
        diff == {m \in Contract(iface) : m \notin impl}
        names == Sorted(diff)
    IN  <<"\n--- " \o iface \o ": " \o Str(Cardinality(impl)) \o " implemented, "
              \o Str(Cardinality(diff)) \o " missing ---">>
            \o (IF diff = {} THEN <<"  ALL IMPLEMENTED!">>
                ELSE [i \in DOMAIN names |-> "  " \o names[i]])

RECURSIVE ExpectedReports(_)
ExpectedReports(k) ==
    IF k = 0 THEN <<>> ELSE ExpectedReports(k - 1) \o ExpectedReport(IfaceNames[k])

\* C8: for each interface the missing list reported is the set difference of
\* the names of its block and the names defined against its receiver in the
\* scanned files, by exact name, and an empty difference prints
\* ALL IMPLEMENTED! in place of a list.
C8_MissingIsSetDifference ==
    printed = ExpectedReports(Cardinality(Reported))

\* A finished report with a missing method, an interface all implemented, and
\* a method (StopInstance) defined against another receiver only.
C8_Witness ==
    /\ fpc = "done"
    /\ ReportBody("MutationResolver") = <<"  StopInstance">>
    /\ ReportBody("QueryResolver") = <<"  ALL IMPLEMENTED!">>
    /\ "StopInstance" \in DefinedIn(OtherFiles, "QueryResolver")

-----------------------------------------------------------------------------
(* translate_and_update.py *)

LOCALE_TO_GOOGLE_LANG(locale) ==
    CASE locale = "en" -> "en" [] locale = "ar" -> "ar" [] locale = "fa" -> "fa"
      [] locale = "fr" -> "fr" [] locale = "it" -> "it" [] locale = "ru" -> "ru"
      [] locale = "sk" -> "sk" [] locale = "sp" -> "es" [] locale = "tr" -> "tr"
      [] locale = "zh" -> "zh-cn" [] OTHER -> None

\* The locales of ALL_LOCALES the model runs with: its first NumLocales.
NumLocales == 2

ALL_LOCALES == SubSeq(<<"ar", "fa", "fr", "it", "ru", "sk", "sp", "tr", "zh">>, 1, NumLocales)

\* The default of translate_text's max_retries.
MaxRetries == 3

FileOf(locale) == "message." \o locale \o ".json"

\* file_path.with_suffix(file_path.suffix + '.bak')
BackupPath(file_path) == file_path \o ".bak"

\* (attempt + 1) * 2 counted from the attempt's index alone.
wait_time_from_zero(n) == n * 2

\* line 162
wait_time(n) == (n + 1) * 2

\* lines 209-214 storing whatever translate_text returned.
EntryValue_Overwrite(english_text, translated_text) == translated_text

\* lines 209-214: the value a translation entry has after its translate_text
\* call.
EntryValue(english_text, translated_text) ==
    IF translated_text # None /\ translated_text # "" THEN translated_text
    ELSE english_text

\* lines 103-111
Phase1Value(value) == Replace(Replace(value, "Foreign", "Starlink"), "Domestic", "Iran")

\* What the translation service answers when it answers.
Translate(text, dest) == "[" \o dest \o "] " \o text

\* The entries message.en.json holds: the first NumKeys of these.
NumKeys == 2

EnglishEntries ==
    <<[key |-> "wan.foreign", value |-> "Foreign Link"],
      [key |-> "wan.domestic", value |-> "Domestic Link (Domestic)"],
      [key |-> "app.title", value |-> "NASNET Connect"]>>

EnglishFile ==
    [locale |-> "en", translations |-> SubSeq(EnglishEntries, 1, NumKeys)]

LocaleFile(locale) ==
    [locale |-> locale,
     translations |-> <<[key |-> "wan.foreign", value |-> "Foreign Link " \o locale]>>]

\* The locale directory before the run: message.en.json and the locale files,
\* each there or not; no backup yet.
Directory(present) ==
    [f \in {FileOf(l) : l \in present} |->
        IF f = FileOf("en") THEN EnglishFile
        ELSE LocaleFile(CHOOSE l \in present : FileOf(l) = f)]

\* The longest --locales list.
MaxLocalesArg == 1

Arguments ==
    [locales : SeqsOf(Range(ALL_LOCALES), 0, MaxLocalesArg), all : BOOLEAN,
     skip_phase1 : BOOLEAN, skip_phase2 : BOOLEAN]

IdleRun ==
    /\ lidx = 0 /\ data = <<>> /\ kidx = 0 /\ translated = 0 /\ failed = 0
    /\ hist = <<>> /\ success_count = 0 /\ summary = <<>>

InitT ==
    /\ tpc = "phase1"
    /\ args \in Arguments
    /\ available \in BOOLEAN
    /\ fs \in {Directory(present) : present \in SUBSET (Range(ALL_LOCALES) \cup {"en"})}
    /\ oplog = <<>>
    /\ english = <<>>
    /\ IdleRun
    /\ IdleZ /\ IdleG /\ IdleF /\ IdleR

\* backup_file followed by save_json of `content`: the files and the log after.
BackupAndSave(file, content) ==
    /\ fs' = (file :> content) @@ (BackupPath(file) :> fs[file]) @@ fs
    /\ oplog' = oplog \o << <<"backup", file>>, <<"write", file>> >>

\* lines 288-295: phase 1, or the load of message.en.json in its place.
\* load_json raises when the file is not there.
TPhase1 ==
    /\ tpc = "phase1"
    /\ LET en_file == FileOf("en")
       IN  IF en_file \notin DOMAIN fs
           THEN /\ tpc' = "crashed"
                /\ UNCHANGED <<fs, oplog, english>>
           ELSE /\ IF ~args.skip_phase1
                   THEN LET old == fs[en_file].translations
                            new == [i \in DOMAIN old |->
                                       [old[i] EXCEPT !.value = Phase1Value(@)]]
                        IN  /\ BackupAndSave(en_file,
                                             [fs[en_file] EXCEPT !.translations = new])
                            /\ english' = new
                   ELSE /\ english' = fs[en_file].translations
                        /\ UNCHANGED <<fs, oplog>>
                /\ tpc' = IF args.skip_phase2 THEN "phase3" ELSE "phase2"
    /\ lidx' = 1
    /\ UNCHANGED <<args, available, data, kidx, translated, failed, hist,
                   success_count, summary, zvars, gvars, fvars, rvars>>

\* lines 131-149: phase 2, one locale of ALL_LOCALES
TPhase2Locale ==
    /\ tpc = "phase2"
    /\ LET locale_file == FileOf(ALL_LOCALES[lidx])
       IN  IF locale_file \notin DOMAIN fs
           THEN UNCHANGED <<fs, oplog>>
           ELSE BackupAndSave(locale_file,
                              [fs[locale_file] EXCEPT !.translations = english])
    /\ IF lidx < Len(ALL_LOCALES)
       THEN lidx' = lidx + 1 /\ UNCHANGED tpc
       ELSE lidx' = 1 /\ tpc' = "phase3"
    /\ UNCHANGED <<args, available, english, data, kidx, translated, failed, hist,
                   success_count, summary, zvars, gvars, fvars, rvars>>

locales_to_translate == IF args.all THEN ALL_LOCALES ELSE args.locales

\* lines 304-321 and 330-338: phase 3 is entered, refused or skipped
TPhase3Start ==
    /\ tpc = "phase3"
    /\ IF args.all \/ Len(args.locales) > 0
       THEN IF ~available THEN tpc' = "exit1" ELSE tpc' = "translate"
       ELSE tpc' = "done"
    /\ lidx' = 1
    /\ success_count' = 0
    /\ UNCHANGED <<args, available, fs, oplog, english, data, kidx, translated,
                   failed, hist, summary, zvars, gvars, fvars, rvars>>

\* translate_text is called: line 207 to line 153
CallTranslate(text, target_lang) ==
    /\ rpc' = "run" /\ rtext' = text /\ rlang' = target_lang /\ rmax' = MaxRetries
    /\ attempt' = 0 /\ calls' = 0 /\ waits' = <<>> /\ rret' = None

NoCall ==
    /\ rpc' = "idle" /\ rtext' = None /\ rlang' = None /\ rmax' = 0
    /\ attempt' = 0 /\ calls' = 0 /\ waits' = <<>> /\ rret' = None

\* lines 322-323 and 172-207: phase3_translate_locale up to the first entry's
\* translate_text call, or its return of False
TBegin ==
    /\ tpc = "translate"
    /\ lidx <= Len(locales_to_translate)
    /\ LET locale == locales_to_translate[lidx]
           locale_file == FileOf(locale)
           target_lang == LOCALE_TO_GOOGLE_LANG(locale)
       IN  IF ~available \/ locale_file \notin DOMAIN fs \/ target_lang = None
           THEN /\ lidx' = lidx + 1
                /\ data' = <<>>
                /\ NoCall
                /\ UNCHANGED tpc
           ELSE /\ data' = fs[locale_file]
                /\ IF Len(fs[locale_file].translations) = 0
                   THEN tpc' = "save" /\ NoCall
                   ELSE /\ tpc' = "entries"
                        /\ CallTranslate(fs[locale_file].translations[1].value, target_lang)
                /\ UNCHANGED lidx
    /\ kidx' = 1
    /\ translated' = 0
    /\ failed' = 0
    /\ hist' = <<>>
    /\ UNCHANGED <<args, available, fs, oplog, english, success_count, summary,
                   zvars, gvars, fvars>>

\* lines 153-168: translate_text up to its next call of the service or its
\* return. The service answers with a text, answers with an empty text, or
\* raises.
RStep ==
    /\ rpc = "run"
    /\ IF ~available \/ attempt >= rmax
       THEN /\ rpc' = "returned"
            /\ rret' = None
            /\ UNCHANGED <<attempt, calls, waits>>
       ELSE \E outcome \in {"text", "empty", "raise"} :
              /\ calls' = calls + 1
              /\ IF outcome # "raise"
                 THEN /\ rpc' = "returned"
                      /\ rret' = IF outcome = "text" THEN Translate(rtext, rlang) ELSE ""
                      /\ UNCHANGED <<attempt, waits>>
                 ELSE IF attempt < rmax - 1
                 THEN /\ waits' = Append(waits, wait_time(attempt))
                      /\ attempt' = attempt + 1
                      /\ UNCHANGED <<rpc, rret>>
                 ELSE /\ rpc' = "returned"
                      /\ rret' = None
                      /\ UNCHANGED <<attempt, waits>>
    /\ UNCHANGED <<rtext, rlang, rmax, tvars, zvars, gvars, fvars>>

\* lines 209-217 and the loop's next entry (line 207)
TEntryDone ==
    /\ tpc = "entries"
    /\ rpc = "returned"
    /\ LET entry == data.translations[kidx]
           kept == EntryValue(entry.value, rret)
       IN  /\ data' = [data EXCEPT !.translations[kidx].value = kept]
           /\ IF rret # None /\ rret # ""
              THEN translated' = translated + 1 /\ UNCHANGED failed
              ELSE failed' = failed + 1 /\ UNCHANGED translated
           /\ hist' = Append(hist, [key |-> entry.key, english |-> entry.value,
                                    ret |-> rret, calls |-> calls])
    /\ IF kidx < Len(data.translations)
       THEN /\ kidx' = kidx + 1
            /\ CallTranslate(data.translations[kidx + 1].value, rlang)
            /\ UNCHANGED tpc
       ELSE /\ tpc' = "save"
            /\ NoCall
            /\ UNCHANGED kidx
    /\ UNCHANGED <<args, available, fs, oplog, english, lidx, success_count, summary,
                   zvars, gvars, fvars>>

\* lines 219-228 and 323-324
TSave ==
    /\ tpc = "save"
    /\ LET locale == locales_to_translate[lidx]
           total == Str(Len(data.translations))
       IN  /\ fs' = [fs EXCEPT ![FileOf(locale)] = data]
           /\ oplog' = Append(oplog, <<"write", FileOf(locale)>>)
           /\ summary' = summary
                  \o <<"\nCompleted: " \o locale,
                       "  - Successfully translated: " \o Str(translated) \o "/" \o total>>
                  \o (IF failed > 0
                      THEN <<"  - Failed (kept English): " \o Str(failed) \o "/" \o total>>
                      ELSE <<>>)
    /\ success_count' = success_count + 1
    /\ lidx' = lidx + 1
    /\ tpc' = "translate"
    /\ UNCHANGED <<args, available, english, data, kidx, translated, failed, hist,
                   zvars, gvars, fvars, rvars>>

\* lines 326-329 and 338
TSummary ==
    /\ tpc = "translate"
    /\ lidx > Len(locales_to_translate)
    /\ summary' = Append(summary, "Successfully translated: " \o Str(success_count)
                                      \o "/" \o Str(Len(locales_to_translate)) \o " locales")
    /\ tpc' = "done"
    /\ UNCHANGED <<args, available, fs, oplog, english, lidx, data, kidx, translated,
                   failed, hist, success_count, zvars, gvars, fvars, rvars>>

NextT ==
    TPhase1 \/ TPhase2Locale \/ TPhase3Start \/ TBegin \/ RStep \/ TEntryDone
        \/ TSave \/ TSummary

SpecTranslate == InitT /\ [][NextT]_vars

\* translate_text called on its own: any text, target language and max_retries
\* up to MaxRetriesArg, with or without the translator.
MaxRetriesArg == 4

InitR ==
    /\ rpc = "run"
    /\ rtext \in {"Starlink Link", "Iran Link (Iran)", "NASNET Connect"}
    /\ rlang \in {"ar", "es", "zh-cn"}
    /\ rmax \in 0..MaxRetriesArg
    /\ attempt = 0 /\ calls = 0 /\ waits = <<>> /\ rret = None
    /\ available \in BOOLEAN
    /\ tpc = "idle" /\ args = <<>> /\ fs = <<>> /\ oplog = <<>> /\ english = <<>>
    /\ IdleRun
    /\ IdleZ /\ IdleG /\ IdleF

NextR == RStep

\* The loop of translate_text runs on until the function returns.
SpecRetry == InitR /\ [][NextR]_vars /\ WF_vars(RStep)

-----------------------------------------------------------------------------
(* Properties of translate_and_update.py *)

\* The entries of the locale just handled whose translate_text call made all
\* its attempts and failed in each.
FailedAllRetries == {i \in DOMAIN hist : hist[i].ret = None /\ hist[i].calls = MaxRetries}

\* The entries counted as failed: no text came back.
KeptEnglish == {i \in DOMAIN hist : hist[i].ret \in {None, ""}}

\* The locale file was saved by the step before: phase3_translate_locale has
\* returned True for the locale before lidx.
JustSaved == tpc \in {"translate", "done"} /\ Len(hist) > 0

\* C2: an entry whose translate call fails on all retry attempts keeps the text
\* loaded from the file, in memory and in the file saved; it is counted under
\* Failed (kept English); the entries after it are processed and the file is
\* saved: the batch never aborts on a failed entry.
C2_FailedEntryKeepsEnglish ==
    /\ tpc \in {"entries", "save"} =>
          /\ \A i \in FailedAllRetries :
                data.translations[i] = [key |-> hist[i].key, value |-> hist[i].english]
          /\ failed = Cardinality(KeptEnglish)
          /\ Len(hist) = (IF tpc = "save" THEN Len(data.translations) ELSE kidx - 1)
    /\ JustSaved =>
          LET saved == fs[FileOf(locales_to_translate[lidx - 1])].translations
          IN  /\ Len(saved) = Len(hist)
              /\ \A i \in FailedAllRetries :
                    saved[i] = [key |-> hist[i].key, value |-> hist[i].english]
              /\ FailedAllRetries # {} =>
                    "  - Failed (kept English): " \o Str(Cardinality(KeptEnglish))
                        \o "/" \o Str(Len(saved)) \in Range(summary)
    /\ tpc = "crashed" => FileOf("en") \notin DOMAIN fs

\* The first entry failed in all attempts, a later one was translated, and the
\* file was saved.
C2_Witness ==
    /\ JustSaved
    /\ 1 \in FailedAllRetries
    /\ \E i \in DOMAIN hist : i > 1 /\ hist[i].ret \notin {None, ""}
    /\ fs[FileOf(locales_to_translate[lidx - 1])].translations[1].value = hist[1].english

\* C3: every write of a message.<locale>.json file comes after a backup of
\* that file taken in the same run.
C3_BackupBeforeEveryWrite ==
    \A i \in DOMAIN oplog :
        oplog[i][1] = "write" =>
            \E j \in 1..(i - 1) : oplog[j] = <<"backup", oplog[i][2]>>

\* The waits after the first n failed attempts: 2, 4, ..., 2n seconds.
LinearWaits(n) == [k \in 1..n |-> 2 * k]

\* C9, in each state of a translate_text call: at most max_retries calls; a wait
\* of 2k seconds after the k-th failure while an attempt is left and none after
\* the last; a text is returned by the call that succeeded, the last one made;
\* None is returned only without translator or after max_retries failures.
C9_State ==
    /\ calls <= rmax
    /\ rpc = "run" => calls = attempt /\ waits = LinearWaits(attempt)
    /\ (rpc = "returned" /\ rret # None) =>
          /\ rret \in {Translate(rtext, rlang), ""}
          /\ calls >= 1
          /\ waits = LinearWaits(calls - 1)
    /\ (rpc = "returned" /\ rret = None) =>
          \/ ~available /\ calls = 0
          \/ calls = rmax /\ waits = LinearWaits(IF rmax = 0 THEN 0 ELSE rmax - 1)

=============================================================================
